---- MODULE Spec2Model ----
(***************************************************************************)
(* BFT round-robin leader selection of chain-impl-mockchain               *)
(* (src/chain-impl-mockchain/src/leadership/bft.rs).                      *)
(*                                                                         *)
(* The ledger's settings hold the roster bft_leaders (an Arc<Vec<LeaderId>>*)
(* that nothing can write to once it is shared).  BftLeaderSelection::new  *)
(* builds a schedule from it; callers then call number_of_leaders,         *)
(* get_leader_at and verify on the schedules.                              *)
(*                                                                         *)
(* Spec     one caller; every call is one action and draws its arguments.  *)
(* SpecConc several threads; get_leader_at and verify are split into the   *)
(*          steps at which they read the roster, so that calls interleave. *)
(*          The block date and the proof of the headers are drawn by       *)
(*          InitConc.                                                      *)
(*                                                                         *)
(* Schedules built from one ledger hold clones of one Arc: they are equal  *)
(* values, so the model keeps the schedule that new returned last.         *)
(***************************************************************************)
EXTENDS Integers, Sequences, FiniteSets, TLC

\* ---------------------------------------------------------------- bounds
\* longest roster of the ledger settings
MaxLen == 3
\* threads of SpecConc, each making one call
NumThreads == 2
\* calls the single caller of Spec makes
MaxCalls == 2
\* largest slot_id of a block date
MaxSlot == 3
\* largest epoch of a block date
MaxEpoch == 1

LeaderIds == {"A", "B", "C"}
Threads == 1..NumThreads

\* Proof variants of a header: Proof::Bft carries a leader_id, the others
\* are matched by the `_` arm of verify.
OtherProofs == {[kind |-> "None"], [kind |-> "GenesisPraos"]}
BftProofs == {[kind |-> "Bft", leader_id |-> l] : l \in LeaderIds}
Proofs == BftProofs \cup OtherProofs

Epochs == 0..MaxEpoch
SlotIds == 0..MaxSlot
BlockDates == [epoch : Epochs, slot_id : SlotIds]
Headers == [block_date : BlockDates, proof : Proofs]

RECURSIVE SeqsUpTo(_)
SeqsUpTo(n) ==
    IF n = 0 THEN {<<>>}
    ELSE LET shorter == SeqsUpTo(n - 1)
         IN  shorter \cup {Append(r, l) : r \in {q \in shorter : Len(q) = n - 1}, l \in LeaderIds}

Rosters == SeqsUpTo(MaxLen)

\* ----------------------------------------------------------------- state
VARIABLES
    bft_leaders,   \* ledger.settings.bft_leaders: the roster of the ledger
    schedule,      \* the BftLeaderSelection that new built, or NoSchedule
    newResult,     \* what the last call of new returned
    last,          \* Spec: the last completed call and its result
    calls,         \* Spec: number of completed calls
    block_date,    \* SpecConc: the block date of the headers of this run
    proof,         \* SpecConc: the proof of the headers of this run
    pc,            \* SpecConc, per thread: where it is in its call
    call,          \* SpecConc, per thread: the call it is in
    ofs,           \* SpecConc, per thread: the BftRoundRobinIndex it computed
    leader_at,     \* SpecConc, per thread: what get_leader_at returned to verify
    ret            \* SpecConc, per thread: what its call returned

seqVars == <<last, calls>>
concVars == <<block_date, proof, pc, call, ofs, leader_at, ret>>
vars == <<bft_leaders, schedule, newResult, last, calls,
          block_date, proof, pc, call, ofs, leader_at, ret>>

NoCall == [op |-> "none"]
NoSchedule == [leaders |-> <<>>, built |-> FALSE]
BftLeaderSelection(leaders) == [leaders |-> leaders, built |-> TRUE]
NoResult == [tag |-> "NotCalled"]

\* ------------------------------------------------------- values returned
Ok(l) == [tag |-> "Ok", value |-> l]
Err(e) == [tag |-> "Err", error |-> e]
Success == [tag |-> "Success"]
Failure(e) == [tag |-> "Failure", error |-> e]
Panic == [tag |-> "Panic"]

\* ------------------------------------------------------- pure operations
\* variant: counts the identities, not the positions
number_of_leaders_distinct(self) ==
    Cardinality({self.leaders[i] : i \in DOMAIN self.leaders})

\* number_of_leaders: self.leaders.len()
number_of_leaders(self) == Len(self.leaders)

\* variant: positions counted from one
offset_from_one(self, block_number) ==
    IF Len(self.leaders) = 0 THEN Panic
    ELSE [tag |-> "Index", value |-> (block_number + 1) % Len(self.leaders)]

\* offset: block_number % max; the remainder by zero panics.  max is the
\* length as u64 and the remainder is below max, so neither cast truncates.
offset(self, block_number) ==
    LET max == number_of_leaders(self)
    IN  IF max = 0 THEN Panic ELSE [tag |-> "Index", value |-> block_number % max]

\* variant: the slots are numbered on through the epochs
SlotOfChain(date) == date.epoch * (MaxSlot + 1) + date.slot_id

\* date.slot_id as u64: a widening cast, the epoch of the date is not read
SlotAsU64(date) == date.slot_id

\* get_leader_at: Ok(self.leaders[ofs].clone()); indexing out of bounds panics
get_leader_at(self, date) ==
    LET o == offset(self, SlotAsU64(date))
    IN  IF o.tag = "Panic" THEN Panic
        ELSE IF o.value >= Len(self.leaders) THEN Panic
        ELSE Ok(self.leaders[o.value + 1])

\* variant: the comparison turned round
CompareLeaderInverted(bft_proof, res) ==
    IF res.tag = "Ok"
    THEN IF bft_proof.leader_id = res.value
         THEN Failure("InvalidLeader")
         ELSE Success
    ELSE Failure(res.error)

\* the arms of verify's inner match on the result of get_leader_at
CompareLeader(bft_proof, res) ==
    IF res.tag = "Ok"
    THEN IF bft_proof.leader_id # res.value
         THEN Failure("InvalidLeader")
         ELSE Success
    ELSE Failure(res.error)

\* variant: a proof of another kind is let through
verify_fail_open(self, block_header) ==
    IF block_header.proof.kind = "Bft"
    THEN LET res == get_leader_at(self, block_header.block_date)
         IN  IF res.tag = "Panic" THEN Panic
             ELSE CompareLeader(block_header.proof, res)
    ELSE Success

\* verify, run from start to end by one caller
verify(self, block_header) ==
    IF block_header.proof.kind = "Bft"
    THEN LET res == get_leader_at(self, block_header.block_date)
         IN  IF res.tag = "Panic" THEN Panic
             ELSE CompareLeader(block_header.proof, res)
    ELSE Failure("InvalidLeaderSignature")

\* ------------------------------------------------------------------ Init
Init ==
    /\ bft_leaders \in Rosters
    /\ schedule = NoSchedule
    /\ newResult = NoResult
    /\ last = [call |-> NoCall, result |-> NoResult]
    /\ calls = 0
    /\ block_date = [epoch |-> 0, slot_id |-> 0]
    /\ proof = [kind |-> "None"]
    /\ pc = [t \in Threads |-> "idle"]
    /\ call = [t \in Threads |-> NoCall]
    /\ ofs = [t \in Threads |-> 0]
    /\ leader_at = [t \in Threads |-> NoResult]
    /\ ret = [t \in Threads |-> NoResult]

\* ------------------------------------------------------ actions of Spec
\* variant: no check of the roster's length
NewUnchecked ==
    /\ schedule' = BftLeaderSelection(bft_leaders)
    /\ newResult' = [tag |-> "Some", value |-> BftLeaderSelection(bft_leaders)]
    /\ UNCHANGED <<bft_leaders, seqVars, concVars>>

\* variant: the check of the roster's length turned round
NewInverted ==
    /\ IF Len(bft_leaders) # 0
       THEN /\ newResult' = [tag |-> "None"]
            /\ UNCHANGED schedule
       ELSE /\ schedule' = BftLeaderSelection(bft_leaders)
            /\ newResult' = [tag |-> "Some", value |-> BftLeaderSelection(bft_leaders)]
    /\ UNCHANGED <<bft_leaders, seqVars, concVars>>

\* BftLeaderSelection::new(ledger)
New ==
    /\ IF Len(bft_leaders) = 0
       THEN /\ newResult' = [tag |-> "None"]
            /\ UNCHANGED schedule
       ELSE /\ schedule' = BftLeaderSelection(bft_leaders)
            /\ newResult' = [tag |-> "Some", value |-> BftLeaderSelection(bft_leaders)]
    /\ UNCHANGED <<bft_leaders, seqVars, concVars>>

\* variant: a completed query moves the rotation on by one leader
CompletedRotating(c, res) ==
    /\ calls < MaxCalls
    /\ last' = [call |-> c, result |-> res]
    /\ calls' = calls + 1
    /\ schedule' = [schedule EXCEPT
                      !.leaders = Append(Tail(schedule.leaders), Head(schedule.leaders))]
    /\ UNCHANGED <<bft_leaders, newResult, concVars>>

Completed(c, res) ==
    /\ calls < MaxCalls
    /\ last' = [call |-> c, result |-> res]
    /\ calls' = calls + 1
    /\ UNCHANGED <<bft_leaders, schedule, newResult, concVars>>

\* schedules[s].number_of_leaders()
NumberOfLeaders ==
    /\ schedule.built
    /\ Completed([op |-> "number_of_leaders"], number_of_leaders(schedule))

\* schedules[s].get_leader_at(date)
GetLeaderAt ==
    /\ schedule.built
    /\ \E date \in BlockDates :
         Completed([op |-> "get_leader_at", date |-> date],
                   get_leader_at(schedule, date))

\* schedules[s].verify(block_header)
Verify ==
    /\ schedule.built
    /\ \E h \in Headers :
         Completed([op |-> "verify", header |-> h], verify(schedule, h))

Next ==
    \/ New
    \/ NumberOfLeaders
    \/ GetLeaderAt
    \/ Verify

Spec == Init /\ [][Next]_vars

\* -------------------------------------------------- actions of SpecConc
\* The epoch of the date is left at 0: no step reads it (SlotAsU64).
InitConc ==
    /\ bft_leaders \in Rosters
    /\ schedule = NoSchedule
    /\ newResult = NoResult
    /\ last = [call |-> NoCall, result |-> NoResult]
    /\ calls = 0
    /\ block_date \in [epoch : {0}, slot_id : SlotIds]
    /\ proof \in Proofs
    /\ pc = [t \in Threads |-> "idle"]
    /\ call = [t \in Threads |-> NoCall]
    /\ ofs = [t \in Threads |-> 0]
    /\ leader_at = [t \in Threads |-> NoResult]
    /\ ret = [t \in Threads |-> NoResult]

Return(t, res) ==
    /\ ret' = [ret EXCEPT ![t] = res]
    /\ pc' = [pc EXCEPT ![t] = "done"]

\* thread t enters get_leader_at(block_date) on the schedule
CallGetLeaderAt(t) ==
    /\ pc[t] = "idle"
    /\ schedule.built
    /\ call' = [call EXCEPT ![t] = [op |-> "get_leader_at", date |-> block_date]]
    /\ pc' = [pc EXCEPT ![t] = "offset"]
    /\ UNCHANGED <<bft_leaders, schedule, newResult, seqVars, block_date, proof,
                   ofs, leader_at, ret>>

\* thread t enters verify(block_header) on the schedule and matches on the proof
CallVerify(t) ==
    /\ pc[t] = "idle"
    /\ schedule.built
    /\ LET h == [block_date |-> block_date, proof |-> proof]
       IN  /\ call' = [call EXCEPT ![t] = [op |-> "verify", header |-> h]]
           /\ IF h.proof.kind = "Bft"
              THEN /\ pc' = [pc EXCEPT ![t] = "offset"]
                   /\ UNCHANGED ret
              ELSE Return(t, Failure("InvalidLeaderSignature"))
    /\ UNCHANGED <<bft_leaders, schedule, newResult, seqVars, block_date, proof,
                   ofs, leader_at>>

DateOf(c) == IF c.op = "verify" THEN c.header.block_date ELSE c.date

\* thread t computes self.offset(date.slot_id as u64): it reads the length
Offset(t) ==
    /\ pc[t] = "offset"
    /\ LET o == offset(schedule, SlotAsU64(DateOf(call[t])))
       IN  IF o.tag = "Panic"
           THEN /\ Return(t, Panic)
                /\ UNCHANGED ofs
           ELSE /\ ofs' = [ofs EXCEPT ![t] = o.value]
                /\ pc' = [pc EXCEPT ![t] = "index"]
                /\ UNCHANGED ret
    /\ UNCHANGED <<bft_leaders, schedule, newResult, seqVars, block_date, proof,
                   call, leader_at>>

\* variant: reading a leader moves the rotation on by one leader
IndexRotating(t) ==
    /\ pc[t] = "index"
    /\ LET leaders == schedule.leaders
       IN  /\ IF call[t].op = "get_leader_at"
              THEN /\ Return(t, Ok(leaders[ofs[t] + 1]))
                   /\ UNCHANGED leader_at
              ELSE /\ leader_at' = [leader_at EXCEPT ![t] = Ok(leaders[ofs[t] + 1])]
                   /\ pc' = [pc EXCEPT ![t] = "match"]
                   /\ UNCHANGED ret
           /\ schedule' = [schedule EXCEPT !.leaders = Append(Tail(leaders), Head(leaders))]
    /\ UNCHANGED <<bft_leaders, newResult, seqVars, block_date, proof, call, ofs>>

\* variant: the last position of the roster is refused with an error
IndexRefusingLast(t) ==
    /\ pc[t] = "index"
    /\ LET leaders == schedule.leaders
           res == IF ofs[t] + 1 >= Len(leaders) THEN Err("Failure")
                  ELSE Ok(leaders[ofs[t] + 1])
       IN  IF call[t].op = "get_leader_at"
           THEN /\ Return(t, res)
                /\ UNCHANGED leader_at
           ELSE /\ leader_at' = [leader_at EXCEPT ![t] = res]
                /\ pc' = [pc EXCEPT ![t] = "match"]
                /\ UNCHANGED ret
    /\ UNCHANGED <<bft_leaders, schedule, newResult, seqVars, block_date, proof,
                   call, ofs>>

\* thread t reads self.leaders[ofs as usize] and get_leader_at returns
Index(t) ==
    /\ pc[t] = "index"
    /\ LET leaders == schedule.leaders
       IN  IF ofs[t] >= Len(leaders)
           THEN /\ Return(t, Panic)
                /\ UNCHANGED leader_at
           ELSE IF call[t].op = "get_leader_at"
                THEN /\ Return(t, Ok(leaders[ofs[t] + 1]))
                     /\ UNCHANGED leader_at
                ELSE /\ leader_at' = [leader_at EXCEPT ![t] = Ok(leaders[ofs[t] + 1])]
                     /\ pc' = [pc EXCEPT ![t] = "match"]
                     /\ UNCHANGED ret
    /\ UNCHANGED <<bft_leaders, schedule, newResult, seqVars, block_date, proof,
                   call, ofs>>

\* verify compares the proof's leader_id with the leader it was given
Compare(t) ==
    /\ pc[t] = "match"
    /\ Return(t, CompareLeader(call[t].header.proof, leader_at[t]))
    /\ UNCHANGED <<bft_leaders, schedule, newResult, seqVars, block_date, proof,
                   call, ofs, leader_at>>

NextConc ==
    \/ New
    \/ \E t \in Threads : CallGetLeaderAt(t)
    \/ \E t \in Threads : CallVerify(t)
    \/ \E t \in Threads : Offset(t)
    \/ \E t \in Threads : Index(t)
    \/ \E t \in Threads : Compare(t)

SpecConc == InitConc /\ [][NextConc]_vars

\* ================================================================ claims
\* R[s mod len(R)], the leader the round robin gives slot s
Scheduled(R, s) == R[(s % Len(R)) + 1]
Identities(R) == {R[i] : i \in DOMAIN R}
IsQuery(c) == c.op \in {"get_leader_at", "verify"}

\* C1: get_leader_at on a schedule built from the non-empty roster R returns
\* Ok with exactly R[s mod len(R)], s being the slot_id of the block date.
C1_LeaderAtSlot ==
    last.call.op = "get_leader_at" =>
        last.result = Ok(Scheduled(bft_leaders, last.call.date.slot_id))

\* a slot beyond the roster's length has been asked for and wrapped round
C1_Witness ==
    /\ last.call.op = "get_leader_at"
    /\ Len(bft_leaders) >= 2
    /\ last.call.date.slot_id >= Len(bft_leaders)
    /\ last.result.tag = "Ok"

\* C2: verify of a header with a Bft proof carrying identity p at slot s
\* returns Success exactly when p = R[s mod len(R)], and
\* Failure(InvalidLeader) in every other case.
C2_VerifyBft ==
    (last.call.op = "verify" /\ last.call.header.proof.kind = "Bft") =>
        LET h == last.call.header
        IN  IF h.proof.leader_id = Scheduled(bft_leaders, h.block_date.slot_id)
            THEN last.result = Success
            ELSE last.result = Failure("InvalidLeader")

\* roster [A, B, C], slot 3 (= 0 mod 3), proof identity A: Success
C2_Witness ==
    /\ last.call.op = "verify"
    /\ bft_leaders = <<"A", "B", "C">>
    /\ last.call.header.block_date.slot_id = 3
    /\ last.call.header.proof = [kind |-> "Bft", leader_id |-> "A"]
    /\ last.result = Success

\* C3: verify of a header whose proof is not the Bft variant returns
\* Failure(InvalidLeaderSignature), whatever the slot and the roster.
C3_OtherProofRejected ==
    (last.call.op = "verify" /\ last.call.header.proof.kind # "Bft") =>
        last.result = Failure("InvalidLeaderSignature")

C3_Witness ==
    /\ last.call.op = "verify"
    /\ last.call.header.proof.kind = "GenesisPraos"
    /\ last.call.header.block_date.slot_id > 0
    /\ Len(bft_leaders) >= 2
    /\ last.result = Failure("InvalidLeaderSignature")

\* C4: new returns None if and only if the ledger's roster is empty, and
\* otherwise a schedule whose roster is the ledger's roster in the same order.
C4_NewNoneIffEmpty ==
    newResult.tag # "NotCalled" =>
        /\ (newResult.tag = "None") <=> (Len(bft_leaders) = 0)
        /\ newResult.tag = "Some" =>
              /\ newResult.value.leaders = bft_leaders
              /\ schedule = newResult.value

\* new has been called on the empty roster
C4_Witness ==
    /\ bft_leaders = <<>>
    /\ newResult.tag = "None"
    /\ ~schedule.built

\* C5 as stated: number_of_leaders returns the number of distinct
\* identities of the roster, also when an identity is in it twice.
C5_DistinctLeaders ==
    last.call.op = "number_of_leaders" =>
        last.result = Cardinality(Identities(bft_leaders))

\* C5 amended: number_of_leaders returns the length of the roster, the
\* number of its positions, an identity at two positions counting twice.
C5_RosterLength ==
    last.call.op = "number_of_leaders" => last.result = Len(bft_leaders)

\* number_of_leaders has been called on a roster with an identity in it twice
C5_Witness ==
    /\ last.call.op = "number_of_leaders"
    /\ Cardinality(Identities(bft_leaders)) < Len(bft_leaders)

\* what a call returns when it runs alone on a schedule of the ledger's roster
Sequential(c) ==
    IF c.op = "get_leader_at"
    THEN get_leader_at(BftLeaderSelection(bft_leaders), c.date)
    ELSE verify(BftLeaderSelection(bft_leaders), c.header)

\* C6: however the steps of the threads' get_leader_at and verify calls
\* interleave, each call returns what it returns when run alone, and at every
\* step a call reads the roster the schedule was built from.
C6_InterleavingInvisible ==
    /\ schedule.built => schedule.leaders = bft_leaders
    /\ \A t \in Threads :
        /\ pc[t] = "index" =>
              ofs[t] = DateOf(call[t]).slot_id % Len(bft_leaders)
        /\ pc[t] = "match" =>
              leader_at[t] = get_leader_at(BftLeaderSelection(bft_leaders),
                                           call[t].header.block_date)
        /\ pc[t] = "done" => ret[t] = Sequential(call[t])

\* a get_leader_at and a verify are both between their reads of the roster
C6_Witness ==
    \E t, u \in Threads :
        /\ t # u
        /\ pc[t] = "index" /\ call[t].op = "get_leader_at"
        /\ pc[u] = "index" /\ call[u].op = "verify"
        /\ Len(bft_leaders) >= 2

\* the calls c and d differ in the epoch of their block date and in nothing else
SameButEpoch(c, d) ==
    /\ c.op = d.op
    /\ IsQuery(c)
    /\ IF c.op = "get_leader_at"
       THEN /\ c.date.slot_id = d.date.slot_id
            /\ c.date.epoch # d.date.epoch
       ELSE /\ c.header.proof = d.header.proof
            /\ c.header.block_date.slot_id = d.header.block_date.slot_id
            /\ c.header.block_date.epoch # d.header.block_date.epoch

\* C7: only the slot_id of a block date counts: a call that differs from the
\* call before it in the epoch alone returns the same result.
C7_EpochIgnored ==
    [][(calls' = calls + 1 /\ SameButEpoch(last.call, last'.call))
          => last'.result = last.result]_vars

\* a second call has been made, at epoch 1, on a roster of several leaders
C7_Witness ==
    /\ calls = 2
    /\ last.call.op = "get_leader_at"
    /\ last.call.date.epoch = 1
    /\ last.call.date.slot_id = 1
    /\ Cardinality(Identities(bft_leaders)) >= 2
    /\ last.result = Ok(bft_leaders[2])

\* C8: a schedule that new built has a roster of length >= 1, so for every
\* slot offset divides by a non-zero length and gives an index below the
\* length: no call panics.
C8_NoPanic ==
    /\ schedule.built =>
          /\ Len(schedule.leaders) >= 1
          /\ \A s \in SlotIds :
                /\ offset(schedule, s).tag = "Index"
                /\ offset(schedule, s).value < Len(schedule.leaders)
    /\ newResult.tag = "Some" => Len(newResult.value.leaders) >= 1
    /\ IsQuery(last.call) => last.result.tag # "Panic"

\* a schedule of one leader has been asked for a slot after the first
C8_Witness ==
    /\ schedule.built
    /\ Len(schedule.leaders) = 1
    /\ last.call.op = "get_leader_at"
    /\ last.call.date.slot_id = MaxSlot
    /\ last.result.tag = "Ok"

\* C9: no call of number_of_leaders, get_leader_at or verify changes the
\* roster, and a call repeated right after itself returns the same result.
C9_RosterFixed ==
    [][/\ bft_leaders' = bft_leaders
       /\ schedule.built => schedule' = schedule
       /\ (calls' = calls + 1 /\ calls > 0 /\ last'.call = last.call)
             => last'.result = last.result]_vars

\* a failing verification has been made after an earlier call
C9_Witness ==
    /\ calls = MaxCalls
    /\ last.call.op = "verify"
    /\ last.result = Failure("InvalidLeader")
    /\ schedule.leaders = bft_leaders

\* C10: get_leader_at never returns Err, so verify never takes its Err arm
\* and returns Success, Failure(InvalidLeader) or
\* Failure(InvalidLeaderSignature).
C10_NoErr ==
    \A t \in Threads :
        /\ pc[t] = "match" => leader_at[t].tag = "Ok"
        /\ (pc[t] = "done" /\ call[t].op = "get_leader_at") => ret[t].tag = "Ok"
        /\ (pc[t] = "done" /\ call[t].op = "verify") =>
              ret[t] \in {Success, Failure("InvalidLeader"),
                          Failure("InvalidLeaderSignature")}

\* a verify has gone through its inner match and failed with InvalidLeader
C10_Witness ==
    \E t \in Threads :
        /\ pc[t] = "done"
        /\ call[t].op = "verify"
        /\ block_date.slot_id >= Len(bft_leaders)
        /\ ret[t] = Failure("InvalidLeader")
====
